---- MODULE Spec2Model ----
(***************************************************************************)
(* PrimeTask API: a Django REST backend with JWT authentication, two roles *)
(* (user, admin) and task CRUD.  The model holds the two tables (users,    *)
(* tasks), the JWTs handed to clients, the refresh-token blacklist and the *)
(* last request together with its response.  An action is one request      *)
(* handled from authentication to the response, or, where requests are     *)
(* served concurrently, one database statement of a handler (inflight).    *)
(*                                                                         *)
(* Left out because no handler branches on them: first_name, last_name,    *)
(* due_date, created_at, updated_at.  Strings whose letter case, trimming  *)
(* or length the code inspects (email, username, title, description,       *)
(* search) are sequences of one-character strings.                         *)
(***************************************************************************)
EXTENDS Integers, Sequences, FiniteSets, TLC

VARIABLES
    users,       \* table users:  id -> [email, username, password, role, is_active]
    nextUserId,  \* the next primary key of table users
    tasks,       \* table tasks:  id -> [title, description, status, priority, owner]
    nextTaskId,  \* the next primary key of table tasks
    issued,      \* the signed JWTs handed to clients so far
    nextJti,     \* the jti of the next token
    blacklist,   \* jti of the blacklisted refresh tokens
    expired,     \* the issued tokens whose lifetime has passed
    settings,    \* SIMPLE_JWT: [rotate, blacklist_after_rotation]
    last,        \* the last request and its response
    inflight     \* the requests a worker has begun and not yet answered

vars == <<users, nextUserId, tasks, nextTaskId, issued, nextJti, blacklist, expired, settings, last, inflight>>

----------------------------------------------------------------------------
(* Bounds of the model. *)

MaxUsers == 3
MaxTasks == 2
MaxTokens == 4
MaxInflight == 2

----------------------------------------------------------------------------
(* Strings. *)

LowerChar(c) ==
    CASE c = "A" -> "a"
      [] c = "B" -> "b"
      [] c = "C" -> "c"
      [] OTHER -> c

AlnumChars == {"a", "b", "c", "A", "B", "C", "1"}

\* str.lower()
Lower(s) == [i \in 1..Len(s) |-> LowerChar(s[i])]

\* str.isalnum(): non-empty and every character alphanumeric
isalnum(s) == Len(s) > 0 /\ \A i \in 1..Len(s) : s[i] \in AlnumChars

RECURSIVE lstrip(_)
lstrip(s) == IF s # <<>> /\ Head(s) = " " THEN lstrip(Tail(s)) ELSE s

RECURSIVE rstrip(_)
rstrip(s) == IF s # <<>> /\ s[Len(s)] = " " THEN rstrip(SubSeq(s, 1, Len(s) - 1)) ELSE s

\* str.strip()
strip(s) == rstrip(lstrip(s))

\* A NULL column value (description is nullable).
Null == <<"NULL">>

\* The ORM lookup <field>__icontains: a case-insensitive substring match; NULL never matches.
icontains(value, needle) ==
    /\ value # Null
    /\ \E i \in 0..(Len(value) - Len(needle)) :
          SubSeq(Lower(value), i + 1, i + Len(needle)) = Lower(needle)

----------------------------------------------------------------------------
(* Model choices and tokens. *)

STATUS_CHOICES == {"pending", "in_progress", "completed", "cancelled"}
PRIORITY_CHOICES == {"low", "medium", "high"}
ROLE_CHOICES == {"user", "admin"}

\* RefreshToken.for_user(user): no custom claim.
NoClaims == [custom |-> FALSE, email |-> <<>>, username |-> <<>>, role |-> ""]

\* UserLoginSerializer.get_token: the claims email, username and role of the user.
get_token(u) ==
    [custom |-> TRUE, email |-> users[u].email, username |-> users[u].username, role |-> users[u].role]

\* A refresh token: its jti, the user it was made for, its custom claims.
RefreshTokenOf(jti, uid, claims) == [type |-> "refresh", jti |-> jti, uid |-> uid, claims |-> claims]

\* refresh.access_token: the user and the claims of the refresh token, under
\* token_type access and a jti of its own.
access_token(refresh, jti) == [refresh EXCEPT !.type = "access", !.jti = jti]

\* A request without Authorization header.
NoToken == [type |-> "none", jti |-> 0, uid |-> 0, claims |-> NoClaims]

\* What a client can put in the Authorization header.
Credentials == issued \cup {NoToken}

\* JWTAuthentication.authenticate followed by IsAuthenticated: the id of request.user,
\* or 0 when the request ends 401 (no header, a token that is not a valid access
\* token, a user that is gone or inactive).
AuthUser(tok) ==
    IF /\ tok \in issued
       /\ tok.type = "access"
       /\ tok \notin expired
       /\ tok.uid \in DOMAIN users
       /\ users[tok.uid].is_active
    THEN tok.uid
    ELSE 0

Response(op, tok, target, req, code, data) ==
    [op |-> op, tok |-> tok, caller |-> AuthUser(tok), target |-> target, req |-> req, code |-> code, data |-> data]

\* The payload p carries field f.
Has(p, f) == f \in DOMAIN p

\* The request of a PUT (partial = FALSE) or a PATCH (partial = TRUE) with payload p.
Update(partial, p) == [partial |-> partial, data |-> p]

NoRequest == [op |-> "none", tok |-> NoToken, caller |-> 0, target |-> 0, req |-> <<>>, code |-> 0, data |-> <<>>]

----------------------------------------------------------------------------
(* Requests are served one at a time: a handler reads a request when the    *)
(* response of the one before has been handed to its client.                *)

Idle == last = NoRequest

Deliver ==
    /\ last # NoRequest
    /\ last' = NoRequest
    /\ UNCHANGED <<users, nextUserId, tasks, nextTaskId, issued, nextJti, blacklist, expired, settings, inflight>>

----------------------------------------------------------------------------
(* accounts/permissions.py *)

\* request.user (0: AnonymousUser) and request.auth (the validated token).
Request(tok) == [user |-> AuthUser(tok), auth |-> tok]

\* A permission that trusts the role claim of the token.
IsAdminUser_by_claim(request) ==
    request.user # 0 /\ request.auth.claims.role = "admin"

\* IsAdminUser.has_permission
IsAdminUser(request) ==
    request.user # 0 /\ users[request.user].role = "admin"

\* IsOwnerOrAdmin.has_object_permission on a task
IsOwnerOrAdmin(u, t) ==
    IF users[u].role = "admin" THEN TRUE ELSE tasks[t].owner = u

----------------------------------------------------------------------------
(* accounts/serializers.py *)

\* The ORM lookup exact on a text column of table users (case-sensitive, as on
\* PostgreSQL and SQLite), leaving out the row `except` (0: none).
UserExists(field, value, except) ==
    \E u \in DOMAIN users \ {except} : users[u][field] = value

\* EmailField: one "@" with text on both sides.
EmailFormat(s) ==
    /\ Cardinality({i \in 1..Len(s) : s[i] = "@"}) = 1
    /\ s[1] # "@"
    /\ s[Len(s)] # "@"

\* UnicodeUsernameValidator of AbstractUser.username: letters, digits and @ . + - _
UsernameFormat(s) ==
    Len(s) > 0 /\ \A i \in 1..Len(s) : s[i] \in AlnumChars \cup {"@", ".", "+", "-", "_"}

\* django.contrib.auth.password_validation.validate_password: TRUE when the
\* password passes the strength policy.
WeakPasswords == {"12345678", "password"}
validate_password(value) == value \notin WeakPasswords

\* UserRegistrationSerializer.validate_email: TRUE when the value is accepted.
validate_email(value) == ~ UserExists("email", Lower(value), 0)

\* UserRegistrationSerializer.validate_username: TRUE when the value is accepted.
validate_username(value) ==
    /\ ~ UserExists("username", Lower(value), 0)
    /\ isalnum(value)
    /\ ~ (Len(value) < 3)

\* UserRegistrationSerializer(data=p).is_valid(): the fields in error.  The field
\* validators of the model (format, UniqueValidator) run before validate_<field>;
\* validate() runs when no field is in error.
UserRegistrationSerializerErrors(p) ==
    LET fields ==
          {f \in {"email", "username", "password", "password_confirm"} :
              \/ ~ Has(p, f)
              \/ f = "email" /\ (\/ ~ EmailFormat(p.email)
                                 \/ UserExists("email", p.email, 0)
                                 \/ ~ validate_email(p.email))
              \/ f = "username" /\ (\/ ~ UsernameFormat(p.username)
                                    \/ UserExists("username", p.username, 0)
                                    \/ ~ validate_username(p.username))
              \/ f = "password" /\ ~ validate_password(p.password)}
    IN  IF fields # {} THEN fields
        ELSE IF p.password # p.password_confirm THEN {"password_confirm"}
        ELSE {}

\* A create that takes the role from the request.
UserRegistrationSerializerCreate_role_from_request(p) ==
    [email |-> Lower(p.email), username |-> Lower(p.username), password |-> p.password,
     role |-> IF Has(p, "role") THEN p.role ELSE "user", is_active |-> TRUE]

\* UserRegistrationSerializer.create: the row create_user inserts.
UserRegistrationSerializerCreate(p) ==
    [email |-> Lower(p.email), username |-> Lower(p.username), password |-> p.password,
     role |-> "user", is_active |-> TRUE]

\* UserProfileSerializer(instance, data=p, partial=partial).is_valid(): the fields
\* in error.  username is the writable field; email and role are read-only.
UserProfileSerializerErrors(u, p, partial) ==
    {f \in {"username"} :
        IF Has(p, "username")
        THEN ~ UsernameFormat(p.username) \/ UserExists("username", p.username, u)
        ELSE ~ partial}

\* UserProfileSerializer.save() of an update
UserProfileSerializerUpdate(instance, p) ==
    [instance EXCEPT !.username = IF Has(p, "username") THEN p.username ELSE @]

\* AdminUserUpdateSerializer(instance, data=p).is_valid(): the fields in error.
\* role and is_active are writable; email and username are read-only.
AdminUserUpdateSerializerErrors(p) ==
    {f \in {"role", "is_active"} :
        \/ f = "role" /\ Has(p, "role") /\ p.role \notin ROLE_CHOICES
        \/ f = "is_active" /\ Has(p, "is_active") /\ p.is_active \notin BOOLEAN}

\* AdminUserUpdateSerializer.save() of an update
AdminUserUpdateSerializerUpdate(instance, p) ==
    [instance EXCEPT !.role = IF Has(p, "role") THEN p.role ELSE @,
                     !.is_active = IF Has(p, "is_active") THEN p.is_active ELSE @]

\* A validation that lets the new password equal the old one.
ChangePasswordSerializerErrors_same_allowed(u, p) ==
    LET fields ==
          {f \in {"old_password", "new_password", "new_password_confirm"} :
              \/ ~ Has(p, f)
              \/ f = "new_password" /\ ~ validate_password(p.new_password)}
    IN  IF fields # {} THEN fields
        ELSE IF users[u].password # p.old_password THEN {"old_password"}
        ELSE IF p.new_password # p.new_password_confirm THEN {"new_password_confirm"}
        ELSE {}

\* ChangePasswordSerializer(data=p).is_valid(): the fields in error.
ChangePasswordSerializerErrors(u, p) ==
    LET fields ==
          {f \in {"old_password", "new_password", "new_password_confirm"} :
              \/ ~ Has(p, f)
              \/ f = "new_password" /\ ~ validate_password(p.new_password)}
    IN  IF fields # {} THEN fields
        ELSE IF users[u].password # p.old_password THEN {"old_password"}
        ELSE IF p.new_password # p.new_password_confirm THEN {"new_password_confirm"}
        ELSE IF p.old_password = p.new_password THEN {"new_password"}
        ELSE {}

----------------------------------------------------------------------------
(* tasks/serializers.py *)

\* A table that also lets a completed task go back to in_progress.
allowed_transitions_resume(current_status) ==
    CASE current_status = "pending" -> {"in_progress", "cancelled"}
      [] current_status = "in_progress" -> {"completed", "pending", "cancelled"}
      [] current_status = "completed" -> {"pending", "in_progress"}
      [] current_status = "cancelled" -> {"pending"}
      [] OTHER -> {}

allowed_transitions(current_status) ==
    CASE current_status = "pending" -> {"in_progress", "cancelled"}
      [] current_status = "in_progress" -> {"completed", "pending", "cancelled"}
      [] current_status = "completed" -> {"pending"}
      [] current_status = "cancelled" -> {"pending"}
      [] OTHER -> {}

\* TaskSerializer.validate_status on an update: TRUE when the value is accepted.
validate_status(current_status, value) ==
    ~ (value # current_status /\ value \notin allowed_transitions(current_status))

\* validate_title of both task serializers: TRUE when the value is accepted.
validate_title(value) == ~ (Len(strip(value)) < 3)

\* TaskSerializer(instance, data=p, partial=partial).is_valid(): the fields in error.
\* owner is read-only: a value the payload carries for it is not looked at.
TaskSerializerErrors(instance, p, partial) ==
    {f \in {"title", "status", "priority"} :
        \/ f = "title" /\ IF Has(p, "title") THEN ~ validate_title(p.title) ELSE ~ partial
        \/ f = "status" /\ Has(p, "status")
              /\ (p.status \notin STATUS_CHOICES \/ ~ validate_status(instance.status, p.status))
        \/ f = "priority" /\ Has(p, "priority") /\ p.priority \notin PRIORITY_CHOICES}

\* An update with owner left writable.
TaskSerializerUpdate_owner_writable(instance, p) ==
    [title       |-> IF Has(p, "title") THEN strip(p.title) ELSE instance.title,
     description |-> IF Has(p, "description") THEN p.description ELSE instance.description,
     status      |-> IF Has(p, "status") THEN p.status ELSE instance.status,
     priority    |-> IF Has(p, "priority") THEN p.priority ELSE instance.priority,
     owner       |-> IF Has(p, "owner") THEN p.owner ELSE instance.owner]

\* serializer.save() of an update: the writable fields of the payload are set.
TaskSerializerUpdate(instance, p) ==
    [title       |-> IF Has(p, "title") THEN strip(p.title) ELSE instance.title,
     description |-> IF Has(p, "description") THEN p.description ELSE instance.description,
     status      |-> IF Has(p, "status") THEN p.status ELSE instance.status,
     priority    |-> IF Has(p, "priority") THEN p.priority ELSE instance.priority,
     owner       |-> instance.owner]

\* TaskCreateSerializer(data=p).is_valid(): fields title, description, priority, due_date.
TaskCreateSerializerErrors(p) ==
    {f \in {"title", "priority"} :
        \/ f = "title" /\ (~ Has(p, "title") \/ ~ validate_title(p.title))
        \/ f = "priority" /\ Has(p, "priority") /\ p.priority \notin PRIORITY_CHOICES}

\* A create that takes owner and status from the payload when it carries them.
TaskCreateSerializerCreate_from_payload(p, user) ==
    [title       |-> strip(p.title),
     description |-> IF Has(p, "description") THEN p.description ELSE Null,
     status      |-> IF Has(p, "status") THEN p.status ELSE "pending",
     priority    |-> IF Has(p, "priority") THEN p.priority ELSE "medium",
     owner       |-> IF Has(p, "owner") THEN p.owner ELSE user]

\* TaskCreateSerializer.create: owner is request.user, status the model default.
TaskCreateSerializerCreate(p, user) ==
    [title       |-> strip(p.title),
     description |-> IF Has(p, "description") THEN p.description ELSE Null,
     status      |-> "pending",
     priority    |-> IF Has(p, "priority") THEN p.priority ELSE "medium",
     owner       |-> user]

----------------------------------------------------------------------------
(* accounts/views.py *)

Insert(table, id, row) == [i \in DOMAIN table \cup {id} |-> IF i = id THEN row ELSE table[i]]

Remove(table, id) == [i \in DOMAIN table \ {id} |-> table[i]]

\* UserRegistrationView.post.  An INSERT that breaks a unique index raises
\* IntegrityError, which no handler catches: 500.
UserRegistrationView_post(p) ==
    /\ IF UserRegistrationSerializerErrors(p) # {}
       THEN /\ last' = Response("register", NoToken, 0, p, 400, UserRegistrationSerializerErrors(p))
            /\ UNCHANGED <<users, nextUserId, issued, nextJti>>
       ELSE IF \/ UserExists("email", UserRegistrationSerializerCreate(p).email, 0)
               \/ UserExists("username", UserRegistrationSerializerCreate(p).username, 0)
       THEN /\ last' = Response("register", NoToken, 0, p, 500, <<>>)
            /\ UNCHANGED <<users, nextUserId, issued, nextJti>>
       ELSE /\ nextUserId <= MaxUsers
            /\ nextJti + 1 <= MaxTokens
            /\ users' = Insert(users, nextUserId, UserRegistrationSerializerCreate(p))
            /\ nextUserId' = nextUserId + 1
            /\ LET refresh == RefreshTokenOf(nextJti, nextUserId, NoClaims)
                   access == access_token(refresh, nextJti + 1)
               IN  /\ issued' = issued \cup {refresh, access}
                   /\ last' = [op |-> "register", tok |-> NoToken, caller |-> 0, target |-> nextUserId,
                               req |-> p, code |-> 201, data |-> [access |-> access, refresh |-> refresh]]
            /\ nextJti' = nextJti + 2
    /\ UNCHANGED <<tasks, nextTaskId, blacklist, expired, settings, inflight>>

\* ModelBackend.authenticate under USERNAME_FIELD = 'email': the user whose email
\* is the one given (exact lookup), when the password checks and the user is
\* active; 0 otherwise.
authenticate(email, password) ==
    IF \E u \in DOMAIN users :
          users[u].email = email /\ users[u].password = password /\ users[u].is_active
    THEN CHOOSE u \in DOMAIN users :
          users[u].email = email /\ users[u].password = password /\ users[u].is_active
    ELSE 0

\* UserLoginView.post: TokenObtainPairSerializer.validate with the claims of
\* UserLoginSerializer.get_token.
UserLoginView_post(p) ==
    /\ IF ~ Has(p, "email") \/ ~ Has(p, "password")
       THEN /\ last' = Response("login", NoToken, 0, p, 400, <<>>)
            /\ UNCHANGED <<issued, nextJti>>
       ELSE IF authenticate(p.email, p.password) = 0
       THEN /\ last' = Response("login", NoToken, 0, p, 401, <<>>)
            /\ UNCHANGED <<issued, nextJti>>
       ELSE /\ nextJti + 1 <= MaxTokens
            /\ LET user == authenticate(p.email, p.password)
                   refresh == RefreshTokenOf(nextJti, user, get_token(user))
                   access == access_token(refresh, nextJti + 1)
               IN  /\ issued' = issued \cup {refresh, access}
                   /\ last' = [op |-> "login", tok |-> NoToken, caller |-> 0, target |-> user,
                               req |-> p, code |-> 200, data |-> [access |-> access, refresh |-> refresh]]
            /\ nextJti' = nextJti + 2
    /\ UNCHANGED <<users, nextUserId, tasks, nextTaskId, blacklist, expired, settings, inflight>>

\* A verification that does not look at the blacklist.
RefreshToken_unchecked(token) ==
    /\ token \in issued
    /\ token.type = "refresh"
    /\ token \notin expired

\* RefreshToken(token): TRUE when the constructor's verify() accepts the token:
\* signed by this server, of type refresh, not expired, not blacklisted.
RefreshToken(token) ==
    /\ token \in issued
    /\ token.type = "refresh"
    /\ token \notin expired
    /\ token.jti \notin blacklist

\* TokenRefreshAPIView.post: TokenRefreshSerializer.validate.  Under
\* ROTATE_REFRESH_TOKENS the answer carries a refresh token with a new jti, and
\* under BLACKLIST_AFTER_ROTATION the one presented is blacklisted.
TokenRefreshAPIView_post(p) ==
    /\ IF ~ Has(p, "refresh")
       THEN /\ last' = Response("refresh", NoToken, 0, p, 400, <<>>)
            /\ UNCHANGED <<issued, nextJti, blacklist>>
       ELSE IF ~ RefreshToken(p.refresh)
       THEN /\ last' = Response("refresh", NoToken, 0, p, 401, <<>>)
            /\ UNCHANGED <<issued, nextJti, blacklist>>
       ELSE IF ~ settings.rotate
       THEN /\ nextJti <= MaxTokens
            /\ issued' = issued \cup {access_token(p.refresh, nextJti)}
            /\ nextJti' = nextJti + 1
            /\ UNCHANGED blacklist
            /\ last' = [op |-> "refresh", tok |-> NoToken, caller |-> 0, target |-> p.refresh.uid, req |-> p,
                        code |-> 200, data |-> [access |-> access_token(p.refresh, nextJti), refresh |-> NoToken]]
       ELSE /\ nextJti + 1 <= MaxTokens
            /\ LET access == access_token(p.refresh, nextJti)
                   rotated == [p.refresh EXCEPT !.jti = nextJti + 1]
               IN  /\ issued' = issued \cup {access, rotated}
                   /\ last' = [op |-> "refresh", tok |-> NoToken, caller |-> 0, target |-> p.refresh.uid, req |-> p,
                               code |-> 200, data |-> [access |-> access, refresh |-> rotated]]
            /\ nextJti' = nextJti + 2
            /\ blacklist' = IF settings.blacklist_after_rotation
                            THEN blacklist \cup {p.refresh.jti}
                            ELSE blacklist
    /\ UNCHANGED <<users, nextUserId, tasks, nextTaskId, expired, settings, inflight>>

\* A logout that answers success whatever the token, blacklisting the ones it can.
LogoutView_post_always_success(tok, p) ==
    /\ IF AuthUser(tok) = 0
       THEN /\ last' = Response("logout", tok, 0, p, 401, <<>>)
            /\ UNCHANGED blacklist
       ELSE IF ~ Has(p, "refresh")
       THEN /\ last' = Response("logout", tok, 0, p, 400, "Refresh token is required")
            /\ UNCHANGED blacklist
       ELSE IF ~ RefreshToken(p.refresh)
       THEN /\ last' = Response("logout", tok, 0, p, 200, "Successfully logged out")
            /\ UNCHANGED blacklist
       ELSE /\ blacklist' = blacklist \cup {p.refresh.jti}
            /\ last' = Response("logout", tok, 0, p, 200, "Successfully logged out")
    /\ UNCHANGED <<users, nextUserId, tasks, nextTaskId, issued, nextJti, expired, settings, inflight>>

\* A logout that answers without blacklisting the token.
LogoutView_post_no_blacklist(tok, p) ==
    /\ last' = IF AuthUser(tok) = 0 THEN Response("logout", tok, 0, p, 401, <<>>)
               ELSE IF ~ Has(p, "refresh") THEN Response("logout", tok, 0, p, 400, "Refresh token is required")
               ELSE IF ~ RefreshToken(p.refresh) THEN Response("logout", tok, 0, p, 400, "Invalid token")
               ELSE Response("logout", tok, 0, p, 200, "Successfully logged out")
    /\ UNCHANGED <<users, nextUserId, tasks, nextTaskId, issued, nextJti, blacklist, expired, settings, inflight>>

\* LogoutView.post: every exception of RefreshToken(refresh_token) and of
\* token.blacklist() is answered 400 'Invalid token'.
LogoutView_post(tok, p) ==
    /\ IF AuthUser(tok) = 0
       THEN /\ last' = Response("logout", tok, 0, p, 401, <<>>)
            /\ UNCHANGED blacklist
       ELSE IF ~ Has(p, "refresh")
       THEN /\ last' = Response("logout", tok, 0, p, 400, "Refresh token is required")
            /\ UNCHANGED blacklist
       ELSE IF ~ RefreshToken(p.refresh)
       THEN /\ last' = Response("logout", tok, 0, p, 400, "Invalid token")
            /\ UNCHANGED blacklist
       ELSE /\ blacklist' = blacklist \cup {p.refresh.jti}
            /\ last' = Response("logout", tok, 0, p, 200, "Successfully logged out")
    /\ UNCHANGED <<users, nextUserId, tasks, nextTaskId, issued, nextJti, expired, settings, inflight>>

\* The lifetime of an issued token passes.
Expire(token) ==
    /\ token \in issued \ expired
    /\ expired' = expired \cup {token}
    /\ UNCHANGED <<users, nextUserId, tasks, nextTaskId, issued, nextJti, blacklist, settings, last, inflight>>

\* UserProfileView.put (partial = FALSE) and UserProfileView.patch (partial = TRUE)
UserProfileView_update(tok, partial, p) ==
    /\ IF AuthUser(tok) = 0
       THEN /\ last' = Response("profile_update", tok, 0, Update(partial, p), 401, <<>>)
            /\ UNCHANGED users
       ELSE IF UserProfileSerializerErrors(AuthUser(tok), p, partial) # {}
       THEN /\ last' = Response("profile_update", tok, AuthUser(tok), Update(partial, p), 400,
                                UserProfileSerializerErrors(AuthUser(tok), p, partial))
            /\ UNCHANGED users
       ELSE /\ users' = [users EXCEPT ![AuthUser(tok)] = UserProfileSerializerUpdate(@, p)]
            /\ last' = Response("profile_update", tok, AuthUser(tok), Update(partial, p), 200, <<>>)
    /\ UNCHANGED <<nextUserId, tasks, nextTaskId, issued, nextJti, blacklist, expired, settings, inflight>>

\* ChangePasswordView.put
ChangePasswordView_put(tok, p) ==
    /\ IF AuthUser(tok) = 0
       THEN /\ last' = Response("change_password", tok, 0, p, 401, <<>>)
            /\ UNCHANGED users
       ELSE IF ChangePasswordSerializerErrors(AuthUser(tok), p) # {}
       THEN /\ last' = Response("change_password", tok, AuthUser(tok), p, 400,
                                ChangePasswordSerializerErrors(AuthUser(tok), p))
            /\ UNCHANGED users
       ELSE /\ users' = [users EXCEPT ![AuthUser(tok)].password = p.new_password]
            /\ last' = Response("change_password", tok, AuthUser(tok), p, 200, <<>>)
    /\ UNCHANGED <<nextUserId, tasks, nextTaskId, issued, nextJti, blacklist, expired, settings, inflight>>

\* The part common to the admin-only views: authentication (401) and
\* IsAdminUser (403).  0 when the request goes on.
AdminRefusal(tok) ==
    IF AuthUser(tok) = 0 THEN 401
    ELSE IF ~ IsAdminUser(Request(tok)) THEN 403
    ELSE 0

\* AdminUserListView.get: the ids of the users listed.
AdminUserListView_get(tok) ==
    /\ last' = IF AdminRefusal(tok) # 0
               THEN Response("admin_user_list", tok, 0, <<>>, AdminRefusal(tok), <<>>)
               ELSE Response("admin_user_list", tok, 0, <<>>, 200, DOMAIN users)
    /\ UNCHANGED <<users, nextUserId, tasks, nextTaskId, issued, nextJti, blacklist, expired, settings, inflight>>

\* AdminUserDetailView.get
AdminUserDetailView_get(tok, pk) ==
    /\ last' = IF AdminRefusal(tok) # 0
               THEN Response("admin_user_retrieve", tok, pk, <<>>, AdminRefusal(tok), <<>>)
               ELSE IF pk \notin DOMAIN users
               THEN Response("admin_user_retrieve", tok, pk, <<>>, 404, <<>>)
               ELSE Response("admin_user_retrieve", tok, pk, <<>>, 200, users[pk])
    /\ UNCHANGED <<users, nextUserId, tasks, nextTaskId, issued, nextJti, blacklist, expired, settings, inflight>>

\* AdminUserDetailView.put, and the patch it inherits: every writable field is optional.
AdminUserDetailView_put(tok, pk, p) ==
    /\ IF AdminRefusal(tok) # 0
       THEN /\ last' = Response("admin_user_update", tok, pk, p, AdminRefusal(tok), <<>>)
            /\ UNCHANGED users
       ELSE IF pk \notin DOMAIN users
       THEN /\ last' = Response("admin_user_update", tok, pk, p, 404, <<>>)
            /\ UNCHANGED users
       ELSE IF AdminUserUpdateSerializerErrors(p) # {}
       THEN /\ last' = Response("admin_user_update", tok, pk, p, 400, AdminUserUpdateSerializerErrors(p))
            /\ UNCHANGED users
       ELSE /\ users' = [users EXCEPT ![pk] = AdminUserUpdateSerializerUpdate(@, p)]
            /\ last' = Response("admin_user_update", tok, pk, p, 200, <<>>)
    /\ UNCHANGED <<nextUserId, tasks, nextTaskId, issued, nextJti, blacklist, expired, settings, inflight>>

\* A delete of the user row alone, the tasks of the user left in place.
AdminUserDetailView_delete_no_cascade(tok, pk) ==
    /\ IF AdminRefusal(tok) # 0
       THEN /\ last' = Response("admin_user_delete", tok, pk, <<>>, AdminRefusal(tok), <<>>)
            /\ UNCHANGED users
       ELSE IF pk \notin DOMAIN users
       THEN /\ last' = Response("admin_user_delete", tok, pk, <<>>, 404, <<>>)
            /\ UNCHANGED users
       ELSE IF pk = AuthUser(tok)
       THEN /\ last' = Response("admin_user_delete", tok, pk, <<>>, 400, "You cannot delete your own account")
            /\ UNCHANGED users
       ELSE /\ users' = Remove(users, pk)
            /\ last' = Response("admin_user_delete", tok, pk, <<>>, 204, <<>>)
    /\ UNCHANGED <<tasks, nextUserId, nextTaskId, issued, nextJti, blacklist, expired, settings, inflight>>

\* A delete that does not compare the user with the caller.
AdminUserDetailView_delete_any(tok, pk) ==
    /\ IF AdminRefusal(tok) # 0
       THEN /\ last' = Response("admin_user_delete", tok, pk, <<>>, AdminRefusal(tok), <<>>)
            /\ UNCHANGED <<users, tasks>>
       ELSE IF pk \notin DOMAIN users
       THEN /\ last' = Response("admin_user_delete", tok, pk, <<>>, 404, <<>>)
            /\ UNCHANGED <<users, tasks>>
       ELSE /\ users' = Remove(users, pk)
            /\ tasks' = [t \in {x \in DOMAIN tasks : tasks[x].owner # pk} |-> tasks[t]]
            /\ last' = Response("admin_user_delete", tok, pk, <<>>, 204, <<>>)
    /\ UNCHANGED <<nextUserId, nextTaskId, issued, nextJti, blacklist, expired, settings, inflight>>

\* AdminUserDetailView.delete: Task.owner is on_delete=CASCADE.
AdminUserDetailView_delete(tok, pk) ==
    /\ IF AdminRefusal(tok) # 0
       THEN /\ last' = Response("admin_user_delete", tok, pk, <<>>, AdminRefusal(tok), <<>>)
            /\ UNCHANGED <<users, tasks>>
       ELSE IF pk \notin DOMAIN users
       THEN /\ last' = Response("admin_user_delete", tok, pk, <<>>, 404, <<>>)
            /\ UNCHANGED <<users, tasks>>
       ELSE IF pk = AuthUser(tok)
       THEN /\ last' = Response("admin_user_delete", tok, pk, <<>>, 400, "You cannot delete your own account")
            /\ UNCHANGED <<users, tasks>>
       ELSE /\ users' = Remove(users, pk)
            /\ tasks' = [t \in {x \in DOMAIN tasks : tasks[x].owner # pk} |-> tasks[t]]
            /\ last' = Response("admin_user_delete", tok, pk, <<>>, 204, <<>>)
    /\ UNCHANGED <<nextUserId, nextTaskId, issued, nextJti, blacklist, expired, settings, inflight>>

----------------------------------------------------------------------------
(* tasks/views.py *)

\* A queryset that is not narrowed to the caller's tasks.
TaskDetailView_get_queryset_all(u) == DOMAIN tasks

\* TaskListCreateView.get_queryset with the base set not narrowed to the caller's tasks.
TaskListCreateView_get_queryset_all(u, q) ==
    LET byStatus == IF Has(q, "status") /\ q.status # ""
                    THEN {t \in DOMAIN tasks : tasks[t].status = q.status} ELSE DOMAIN tasks
        byPriority == IF Has(q, "priority") /\ q.priority # ""
                      THEN {t \in byStatus : tasks[t].priority = q.priority} ELSE byStatus
    IN  IF Has(q, "search") /\ q.search # <<>>
        THEN {t \in byPriority : icontains(tasks[t].title, q.search) \/ icontains(tasks[t].description, q.search)}
        ELSE byPriority

\* TaskListCreateView.get_queryset: q holds the query parameters of the request;
\* a parameter that is absent or empty does not filter.
TaskListCreateView_get_queryset(u, q) ==
    LET queryset == IF users[u].role = "admin"
                    THEN DOMAIN tasks
                    ELSE {t \in DOMAIN tasks : tasks[t].owner = u}
        byStatus == IF Has(q, "status") /\ q.status # ""
                    THEN {t \in queryset : tasks[t].status = q.status} ELSE queryset
        byPriority == IF Has(q, "priority") /\ q.priority # ""
                      THEN {t \in byStatus : tasks[t].priority = q.priority} ELSE byStatus
    IN  IF Has(q, "search") /\ q.search # <<>>
        THEN {t \in byPriority : icontains(tasks[t].title, q.search) \/ icontains(tasks[t].description, q.search)}
        ELSE byPriority

\* TaskListCreateView.get: the ids of the tasks listed (pagination and order left out).
TaskList(tok, q) ==
    /\ last' = IF AuthUser(tok) = 0
               THEN Response("task_list", tok, 0, q, 401, <<>>)
               ELSE Response("task_list", tok, 0, q, 200, TaskListCreateView_get_queryset(AuthUser(tok), q))
    /\ UNCHANGED <<users, nextUserId, tasks, nextTaskId, issued, nextJti, blacklist, expired, settings, inflight>>

\* TaskDetailView.get_queryset
TaskDetailView_get_queryset(u) ==
    IF users[u].role = "admin"
    THEN DOMAIN tasks
    ELSE {t \in DOMAIN tasks : tasks[t].owner = u}

\* A detail view that looks the task up among all tasks and checks no ownership.
TaskDetailRefusal_no_ownership(tok, pk) ==
    IF AuthUser(tok) = 0 THEN 401
    ELSE IF pk \notin DOMAIN tasks THEN 404
    ELSE 0

\* The part of TaskDetailView common to GET, PUT, PATCH and DELETE: authentication,
\* get_object over get_queryset (404), check_object_permissions (403).
\* 0 when the request goes on.
TaskDetailRefusal(tok, pk) ==
    IF AuthUser(tok) = 0 THEN 401
    ELSE IF pk \notin TaskDetailView_get_queryset(AuthUser(tok)) THEN 404
    ELSE IF ~ IsOwnerOrAdmin(AuthUser(tok), pk) THEN 403
    ELSE 0

\* TaskListCreateView.post
TaskCreate(tok, p) ==
    /\ IF AuthUser(tok) = 0
       THEN /\ last' = Response("task_create", tok, 0, p, 401, <<>>)
            /\ UNCHANGED <<tasks, nextTaskId>>
       ELSE IF TaskCreateSerializerErrors(p) # {}
       THEN /\ last' = Response("task_create", tok, 0, p, 400, TaskCreateSerializerErrors(p))
            /\ UNCHANGED <<tasks, nextTaskId>>
       ELSE /\ nextTaskId <= MaxTasks
            /\ tasks' = [t \in DOMAIN tasks \cup {nextTaskId} |->
                            IF t = nextTaskId
                            THEN TaskCreateSerializerCreate(p, AuthUser(tok))
                            ELSE tasks[t]]
            /\ nextTaskId' = nextTaskId + 1
            /\ last' = Response("task_create", tok, nextTaskId, p, 201, <<>>)
    /\ UNCHANGED <<users, nextUserId, issued, nextJti, blacklist, expired, settings, inflight>>

\* TaskDetailView.get
TaskRetrieve(tok, pk) ==
    /\ last' = IF TaskDetailRefusal(tok, pk) # 0
               THEN Response("task_retrieve", tok, pk, <<>>, TaskDetailRefusal(tok, pk), <<>>)
               ELSE Response("task_retrieve", tok, pk, <<>>, 200, tasks[pk])
    /\ UNCHANGED <<users, nextUserId, tasks, nextTaskId, issued, nextJti, blacklist, expired, settings, inflight>>

\* TaskDetailView.put (partial = FALSE) and TaskDetailView.patch (partial = TRUE)
TaskUpdate(tok, pk, partial, p) ==
    /\ IF TaskDetailRefusal(tok, pk) # 0
       THEN /\ last' = Response("task_update", tok, pk, Update(partial, p), TaskDetailRefusal(tok, pk), <<>>)
            /\ UNCHANGED tasks
       ELSE IF TaskSerializerErrors(tasks[pk], p, partial) # {}
       THEN /\ last' = Response("task_update", tok, pk, Update(partial, p), 400, TaskSerializerErrors(tasks[pk], p, partial))
            /\ UNCHANGED tasks
       ELSE /\ tasks' = [tasks EXCEPT ![pk] = TaskSerializerUpdate(tasks[pk], p)]
            /\ last' = Response("task_update", tok, pk, Update(partial, p), 200, <<>>)
    /\ UNCHANGED <<users, nextUserId, nextTaskId, issued, nextJti, blacklist, expired, settings, inflight>>

\* TaskDetailView.delete
TaskDelete(tok, pk) ==
    /\ IF TaskDetailRefusal(tok, pk) # 0
       THEN /\ last' = Response("task_delete", tok, pk, <<>>, TaskDetailRefusal(tok, pk), <<>>)
            /\ UNCHANGED tasks
       ELSE /\ tasks' = [t \in DOMAIN tasks \ {pk} |-> tasks[t]]
            /\ last' = Response("task_delete", tok, pk, <<>>, 204, <<>>)
    /\ UNCHANGED <<users, nextUserId, nextTaskId, issued, nextJti, blacklist, expired, settings, inflight>>

\* AdminTaskListView.get: the ids of the tasks listed.
AdminTaskListView_get(tok) ==
    /\ last' = IF AdminRefusal(tok) # 0
               THEN Response("admin_task_list", tok, 0, <<>>, AdminRefusal(tok), <<>>)
               ELSE Response("admin_task_list", tok, 0, <<>>, 200, DOMAIN tasks)
    /\ UNCHANGED <<users, nextUserId, tasks, nextTaskId, issued, nextJti, blacklist, expired, settings, inflight>>

\* AdminTaskDeleteView.delete
AdminTaskDeleteView_delete(tok, pk) ==
    /\ IF AdminRefusal(tok) # 0
       THEN /\ last' = Response("admin_task_delete", tok, pk, <<>>, AdminRefusal(tok), <<>>)
            /\ UNCHANGED tasks
       ELSE IF pk \notin DOMAIN tasks
       THEN /\ last' = Response("admin_task_delete", tok, pk, <<>>, 404, <<>>)
            /\ UNCHANGED tasks
       ELSE /\ tasks' = Remove(tasks, pk)
            /\ last' = Response("admin_task_delete", tok, pk, <<>>, 200, <<>>)
    /\ UNCHANGED <<users, nextUserId, nextTaskId, issued, nextJti, blacklist, expired, settings, inflight>>

----------------------------------------------------------------------------
(* Requests whose handler runs several statements against the database.  The *)
(* views open no transaction, so each statement is a step of its own and the *)
(* statements of other requests can run in between.  inflight holds what a   *)
(* handler has read so far.                                                  *)

\* UserRegistrationView.post up to serializer.is_valid(): the uniqueness
\* checks are SELECTs on the users stored at that moment.
UserRegistrationView_post_is_valid(p) ==
    /\ IF UserRegistrationSerializerErrors(p) # {}
       THEN /\ last' = Response("register", NoToken, 0, p, 400, UserRegistrationSerializerErrors(p))
            /\ UNCHANGED inflight
       ELSE /\ Cardinality(inflight) < MaxInflight
            /\ inflight' = inflight \cup {[op |-> "register", data |-> p]}
            /\ UNCHANGED last
    /\ UNCHANGED <<users, nextUserId, tasks, nextTaskId, issued, nextJti, blacklist, expired, settings>>

\* UserRegistrationView.post from serializer.save() on: the INSERT of
\* create_user, under the unique indexes of email and username (an
\* IntegrityError is caught nowhere: 500), and the tokens.
UserRegistrationView_post_save(r) ==
    /\ r \in inflight
    /\ r.op = "register"
    /\ Idle
    /\ inflight' = inflight \ {r}
    /\ IF \/ UserExists("email", UserRegistrationSerializerCreate(r.data).email, 0)
          \/ UserExists("username", UserRegistrationSerializerCreate(r.data).username, 0)
       THEN /\ last' = Response("register", NoToken, 0, r.data, 500, <<>>)
            /\ UNCHANGED <<users, nextUserId, issued, nextJti>>
       ELSE /\ nextUserId <= MaxUsers
            /\ nextJti + 1 <= MaxTokens
            /\ users' = Insert(users, nextUserId, UserRegistrationSerializerCreate(r.data))
            /\ nextUserId' = nextUserId + 1
            /\ LET refresh == RefreshTokenOf(nextJti, nextUserId, NoClaims)
                   access == access_token(refresh, nextJti + 1)
               IN  /\ issued' = issued \cup {refresh, access}
                   /\ last' = [op |-> "register", tok |-> NoToken, caller |-> 0, target |-> nextUserId,
                               req |-> r.data, code |-> 201, data |-> [access |-> access, refresh |-> refresh]]
            /\ nextJti' = nextJti + 2
    /\ UNCHANGED <<tasks, nextTaskId, blacklist, expired, settings>>

\* TaskDetailView.put / patch up to get_object(): authentication, the SELECT
\* of the task in the caller's queryset, the object permission.  The instance
\* read is kept by the handler.
TaskUpdate_get_object(tok, pk, partial, p) ==
    /\ IF TaskDetailRefusal(tok, pk) # 0
       THEN /\ last' = Response("task_update", tok, pk, Update(partial, p), TaskDetailRefusal(tok, pk), <<>>)
            /\ UNCHANGED inflight
       ELSE /\ Cardinality(inflight) < MaxInflight
            /\ inflight' = inflight \cup
                  {[op |-> "task_update", tok |-> tok, user |-> AuthUser(tok), pk |-> pk,
                    partial |-> partial, data |-> p, instance |-> tasks[pk]]}
            /\ UNCHANGED last
    /\ UNCHANGED <<users, nextUserId, tasks, nextTaskId, issued, nextJti, blacklist, expired, settings>>

\* TaskDetailView.put / patch from is_valid() on: the validation looks at the
\* instance read by get_object(), and save() writes every column of that
\* instance with the validated fields set (an UPDATE by primary key, and an
\* INSERT when the row is gone; the INSERT of a task whose owner is gone
\* breaks the foreign key: 500).
TaskUpdate_save(r) ==
    /\ r \in inflight
    /\ r.op = "task_update"
    /\ Idle
    /\ inflight' = inflight \ {r}
    /\ LET answer(code, data) ==
              [op |-> "task_update", tok |-> r.tok, caller |-> r.user, target |-> r.pk,
               req |-> Update(r.partial, r.data), code |-> code, data |-> data]
       IN  IF TaskSerializerErrors(r.instance, r.data, r.partial) # {}
           THEN /\ last' = answer(400, TaskSerializerErrors(r.instance, r.data, r.partial))
                /\ UNCHANGED tasks
           ELSE IF r.pk \notin DOMAIN tasks /\ r.instance.owner \notin DOMAIN users
           THEN /\ last' = answer(500, <<>>)
                /\ UNCHANGED tasks
           ELSE /\ tasks' = [t \in DOMAIN tasks \cup {r.pk} |->
                               IF t = r.pk THEN TaskSerializerUpdate(r.instance, r.data) ELSE tasks[t]]
                /\ last' = answer(200, <<>>)
    /\ UNCHANGED <<users, nextUserId, nextTaskId, issued, nextJti, blacklist, expired, settings>>

\* The keys of the stats dictionary, in the order their queries run.
StatsQueries == <<"total", "pending", "in_progress", "completed", "cancelled">>

\* TaskStatsView.get: the queryset by the role of request.user.
TaskStatsView_queryset(r) ==
    IF r.admin THEN DOMAIN tasks ELSE {t \in DOMAIN tasks : tasks[t].owner = r.user}

\* queryset.count() and queryset.filter(status=q).count()
TaskStatsView_count(r, q) ==
    Cardinality({t \in TaskStatsView_queryset(r) : q = "total" \/ tasks[t].status = q})

\* TaskStatsView.get up to the first query: authentication loads request.user.
TaskStatsView_get_begin(tok) ==
    /\ IF AuthUser(tok) = 0
       THEN /\ last' = Response("task_stats", tok, 0, <<>>, 401, <<>>)
            /\ UNCHANGED inflight
       ELSE /\ Cardinality(inflight) < MaxInflight
            /\ inflight' = inflight \cup
                  {[op |-> "task_stats", tok |-> tok, user |-> AuthUser(tok),
                    admin |-> users[AuthUser(tok)].role = "admin", counts |-> <<>>]}
            /\ UNCHANGED last
    /\ UNCHANGED <<users, nextUserId, tasks, nextTaskId, issued, nextJti, blacklist, expired, settings>>

\* TaskStatsView.get: the next count query of request r, and the response
\* after the last one.
TaskStatsView_get_count(r) ==
    /\ r \in inflight
    /\ r.op = "task_stats"
    /\ LET counts == Append(r.counts, TaskStatsView_count(r, StatsQueries[Len(r.counts) + 1]))
       IN  IF Len(counts) < Len(StatsQueries)
           THEN /\ inflight' = (inflight \ {r}) \cup {[r EXCEPT !.counts = counts]}
                /\ UNCHANGED last
           ELSE /\ Idle
                /\ inflight' = inflight \ {r}
                /\ last' = [op |-> "task_stats", tok |-> r.tok, caller |-> r.user, target |-> 0,
                            req |-> <<>>, code |-> 200,
                            data |-> [q \in {StatsQueries[i] : i \in 1..Len(StatsQueries)} |->
                                         counts[CHOOSE i \in 1..Len(StatsQueries) : StatsQueries[i] = q]]]
    /\ UNCHANGED <<users, nextUserId, tasks, nextTaskId, issued, nextJti, blacklist, expired, settings>>

----------------------------------------------------------------------------

(* The body of a failing response.                                           *)

\* custom_exception_handler: the keys of the body it builds for an exception
\* the framework turns into a response (401, 403, 404, a raised ValidationError).
custom_exception_handler == {"success", "error"}

\* The top-level keys of the body of a failing response l.  A view that
\* builds its failure Response itself decides the body; the exceptions raised
\* on the way (authentication, permission, get_object, is_valid with
\* raise_exception) go through the exception handler; an exception that is
\* not an APIException (500) gets no body from the handler.
ErrorBody(l) ==
    CASE l.op = "register" /\ l.code = 400 -> {"success", "message", "errors"}
      [] l.op = "logout" /\ l.code = 400 -> {"success", "message"}
      [] l.op = "change_password" /\ l.code = 400 -> {"success", "message", "errors"}
      [] l.op = "task_create" /\ l.code = 400 -> {"success", "message", "errors"}
      [] l.op = "admin_user_delete" /\ l.code = 400 -> {"success", "message"}
      [] l.code = 500 -> {}
      [] OTHER -> custom_exception_handler

----------------------------------------------------------------------------

(* States the specifications start in. *)

Email1 == <<"a", "@", "c">>
Email2 == <<"b", "@", "c">>
Email3 == <<"c", "@", "c">>
Name1 == <<"a", "a", "1">>
Name2 == <<"b", "b", "1">>
Name3 == <<"c", "c", "1">>
Pass1 == "S3cret-one"
Pass2 == "S3cret-two"

UserRow(email, username, role) ==
    [email |-> email, username |-> username, password |-> Pass1, role |-> role, is_active |-> TRUE]

\* The access token a login of user u of table us hands out.
LoginAccess(us, u) ==
    [type |-> "access", jti |-> 0 - u, uid |-> u,
     claims |-> [custom |-> TRUE, email |-> us[u].email, username |-> us[u].username, role |-> us[u].role]]

\* An admin (made with createsuperuser) and two registered users, all three logged in.
ThreeUsers == (1 :> UserRow(Email1, Name1, "admin")) @@ (2 :> UserRow(Email2, Name2, "user")) @@ (3 :> UserRow(Email3, Name3, "user"))

NoTasks == [t \in {} |-> 0]

InitTask ==
    /\ users = ThreeUsers
    /\ nextUserId = 4
    /\ tasks = NoTasks
    /\ nextTaskId = 1
    /\ issued = {LoginAccess(ThreeUsers, u) : u \in DOMAIN ThreeUsers}
    /\ nextJti = 1
    /\ blacklist = {}
    /\ expired = {}
    /\ settings = [rotate |-> FALSE, blacklist_after_rotation |-> FALSE]
    /\ last = NoRequest
    /\ inflight = {}

----------------------------------------------------------------------------
(* SpecTask: the task detail endpoint. *)

Title1 == <<"A", "b", "c">>
TitleShort == <<" ", "a", "b", " ">>

TaskCreatePayloads == {[title |-> Title1], [title |-> TitleShort], [title |-> Title1, owner |-> 1, status |-> "completed"]}

TaskUpdatePayloads ==
    {[status |-> s] : s \in STATUS_CHOICES} \cup
    {[status |-> "in_progress", owner |-> o] : o \in {1, 2}} \cup
    {[title |-> Title1, owner |-> 3], [status |-> "done"]}

TaskIds == 1..MaxTasks

NextTask ==
    \/ Idle /\ \E tok \in Credentials, p \in TaskCreatePayloads : TaskCreate(tok, p)
    \/ Idle /\ \E tok \in Credentials, pk \in TaskIds : TaskRetrieve(tok, pk)
    \/ Idle /\ \E tok \in Credentials, pk \in TaskIds, partial \in BOOLEAN, p \in TaskUpdatePayloads :
          TaskUpdate(tok, pk, partial, p)
    \/ Idle /\ \E tok \in Credentials, pk \in TaskIds : TaskDelete(tok, pk)
    \/ Deliver

SpecTask == InitTask /\ [][NextTask]_vars

----------------------------------------------------------------------------
(* The transition table of the specification, section 4.3. *)

TransitionTable ==
    {<<"pending", "in_progress">>, <<"pending", "cancelled">>,
     <<"in_progress", "pending">>, <<"in_progress", "completed">>, <<"in_progress", "cancelled">>,
     <<"completed", "pending">>, <<"cancelled", "pending">>}

\* The caller of the last request is the owner of task t or an admin.
MayWrite(u, t) == u # 0 /\ t \in DOMAIN tasks /\ (users[u].role = "admin" \/ tasks[t].owner = u)

\* The rest of an update payload is acceptable: a PUT carries a title, a title is 3 characters long.
RestValid(r) ==
    /\ r.partial \/ Has(r.data, "title")
    /\ Has(r.data, "title") => Len(strip(r.data.title)) >= 3

(* C1: an update by the owner or an admin of a task in status `from` with    *)
(* payload status `to` answers 200 and stores `to` when to = from or the     *)
(* pair is in the transition table, and otherwise answers 400 with an error  *)
(* on the field status and leaves the stored status `from`.                  *)
C1_StatusTransition ==
    [][(/\ last'.op = "task_update"
        /\ MayWrite(last'.caller, last'.target)
        /\ Has(last'.req.data, "status")
        /\ last'.req.data.status \in STATUS_CHOICES
        /\ RestValid(last'.req))
       => LET from == tasks[last'.target].status
              to == last'.req.data.status
          IN  IF to = from \/ <<from, to>> \in TransitionTable
              THEN last'.code = 200 /\ tasks'[last'.target].status = to
              ELSE last'.code = 400 /\ "status" \in last'.data /\ tasks'[last'.target].status = from
      ]_vars

\* A completed task was asked to go to in_progress, and the update was refused.
C1_Witness ==
    /\ last.op = "task_update"
    /\ last.code = 400
    /\ MayWrite(last.caller, last.target)
    /\ Has(last.req.data, "status")
    /\ last.req.data.status = "in_progress"
    /\ tasks[last.target].status = "completed"

(* C2: no step changes the owner of a stored task: after any sequence of    *)
(* PUT and PATCH requests, by the owner or an admin, with or without an     *)
(* owner in the payload, a task has the owner it was created with.          *)
C2_OwnerImmutable ==
    [][\A t \in DOMAIN tasks \cap DOMAIN tasks' : tasks'[t].owner = tasks[t].owner]_vars

\* An update that carried another owner was applied.
C2_Witness ==
    /\ last.op = "task_update"
    /\ last.code = 200
    /\ Has(last.req.data, "owner")
    /\ last.req.data.owner # tasks[last.target].owner
    /\ last.req.data.owner \in DOMAIN users

\* The last request was a retrieve, update or delete of an existing task of
\* another user by a caller who is not an admin.
ForeignDetailRequest ==
    /\ last.op \in {"task_retrieve", "task_update", "task_delete"}
    /\ last.caller # 0
    /\ users[last.caller].role # "admin"
    /\ last.target \in DOMAIN tasks
    /\ tasks[last.target].owner # last.caller

(* C3 as stated: a retrieve, update or delete of another user's task by a   *)
(* caller who is not an admin is answered 403.                              *)
C3_Forbidden == ForeignDetailRequest => last.code = 403

(* C3 as amended: a retrieve, update or delete of another user's task by a  *)
(* caller who is not an admin is answered 404 (the task is not in the       *)
(* caller's queryset), and never any other way.                             *)
C3_NotFound == ForeignDetailRequest => last.code = 404

\* A user who is not an admin asked to delete a task of another user.
C3_Witness == ForeignDetailRequest /\ last.op = "task_delete"

----------------------------------------------------------------------------
(* SpecList: the task list with its filters. *)

Title2 == <<"c", "b", "b">>
Description1 == <<"x", "A">>

ListCreatePayloads == {[title |-> Title1], [title |-> Title2, description |-> Description1, priority |-> "high"]}

ListUpdatePayloads == {[status |-> "in_progress"], [title |-> Title2]}

Queries ==
    {[n \in {} |-> ""],
     [status |-> "pending"], [status |-> "in_progress"], [status |-> ""], [status |-> "done"],
     [priority |-> "high"], [priority |-> "medium", search |-> <<"B", "C">>],
     [search |-> <<"a">>], [search |-> <<"B", "C">>], [search |-> <<"x">>], [search |-> <<>>],
     [status |-> "pending", priority |-> "high", search |-> <<"a">>],
     [status |-> "in_progress", search |-> <<"B">>]}

NextList ==
    \/ Idle /\ \E tok \in Credentials, p \in ListCreatePayloads : TaskCreate(tok, p)
    \/ Idle /\ \E tok \in Credentials, pk \in TaskIds, p \in ListUpdatePayloads : TaskUpdate(tok, pk, TRUE, p)
    \/ Idle /\ \E tok \in Credentials, pk \in TaskIds : TaskDelete(tok, pk)
    \/ Idle /\ \E tok \in Credentials, q \in Queries : TaskList(tok, q)
    \/ Deliver

SpecList == InitTask /\ [][NextList]_vars

\* Two characters are the same letter, whatever their case.
SameLetter(a, b) == a = b \/ {a, b} \in {{"a", "A"}, {"b", "B"}, {"c", "C"}}

\* text holds s as a substring, ignoring letter case; a NULL text holds nothing.
HoldsIgnoringCase(text, s) ==
    /\ text # Null
    /\ \E k \in 1..(Len(text) + 1) :
          /\ k + Len(s) - 1 <= Len(text)
          /\ \A j \in 1..Len(s) : SameLetter(text[k + j - 1], s[j])

\* A filter is supplied when the query carries a value for it.
Supplied(q, f, empty) == Has(q, f) /\ q[f] # empty

\* Task t matches every filter the query q supplies.
MatchesAll(t, q) ==
    /\ Supplied(q, "status", "") => tasks[t].status = q.status
    /\ Supplied(q, "priority", "") => tasks[t].priority = q.priority
    /\ Supplied(q, "search", <<>>) =>
          HoldsIgnoringCase(tasks[t].title, q.search) \/ HoldsIgnoringCase(tasks[t].description, q.search)

(* C4: a task list answered 200 holds exactly the tasks of the caller's base *)
(* set that match every supplied filter, the base set being all tasks for an *)
(* admin and the caller's own tasks otherwise; the list of a caller who is   *)
(* not an admin holds no task of another user.                               *)
C4_ListExact ==
    (last.op = "task_list" /\ last.code = 200) =>
        /\ last.data = {t \in DOMAIN tasks :
                            /\ users[last.caller].role = "admin" \/ tasks[t].owner = last.caller
                            /\ MatchesAll(t, last.req)}
        /\ users[last.caller].role # "admin" => \A t \in last.data : tasks[t].owner = last.caller

\* A user who is not an admin searched with a term that matches by case folding
\* only, while a matching task of another user is stored: the list holds the
\* caller's task and not the other.
C4_Witness ==
    /\ last.op = "task_list"
    /\ last.code = 200
    /\ users[last.caller].role # "admin"
    /\ Has(last.req, "search")
    /\ last.req.search = <<"B", "C">>
    /\ last.data # {}
    /\ \E t \in DOMAIN tasks : tasks[t].owner # last.caller /\ MatchesAll(t, last.req)

----------------------------------------------------------------------------
(* SpecAuth: login, refresh, logout and the passing of token lifetimes, under *)
(* each setting of refresh-token rotation.                                    *)

EmailUpper2 == <<"B", "@", "c">>

InitAuth ==
    /\ users = ThreeUsers
    /\ nextUserId = 4
    /\ tasks = NoTasks
    /\ nextTaskId = 1
    /\ issued = {}
    /\ nextJti = 1
    /\ blacklist = {}
    /\ expired = {}
    /\ settings \in [rotate : BOOLEAN, blacklist_after_rotation : BOOLEAN]
    /\ last = NoRequest
    /\ inflight = {}

LoginPayloads ==
    {[email |-> Email2, password |-> Pass1], [email |-> Email2, password |-> Pass2],
     [email |-> EmailUpper2, password |-> Pass1], [email |-> Email3, password |-> Pass1],
     [email |-> Email2]}

NoPayload == [n \in {} |-> ""]

RefreshPayloads == {[refresh |-> t] : t \in issued} \cup {NoPayload}

NextAuth ==
    \/ Idle /\ \E p \in LoginPayloads : UserLoginView_post(p)
    \/ Idle /\ \E p \in RefreshPayloads : TokenRefreshAPIView_post(p)
    \/ Idle /\ \E tok \in Credentials, p \in RefreshPayloads : LogoutView_post(tok, p)
    \/ Idle /\ \E t \in issued : Expire(t)
    \/ Deliver

SpecAuth == InitAuth /\ [][NextAuth]_vars

\* The refresh token r is one a login or a refresh handed out, its lifetime has
\* not passed, it is not blacklisted and its user is an active user.
Usable(r) ==
    /\ r \in issued
    /\ r.type = "refresh"
    /\ r \notin expired
    /\ r.jti \notin blacklist
    /\ r.uid \in DOMAIN users
    /\ users[r.uid].is_active

(* C7: a refresh with a usable refresh token is answered 200 with an access  *)
(* token that authenticates as the token's user; a logout answered 200 puts  *)
(* the refresh token on the blacklist, nothing leaves the blacklist, and a   *)
(* refresh with a blacklisted token is answered 401 and hands out no token:  *)
(* once logout(r) has succeeded every later refresh(r) fails.                *)
C7_TokenRoundTrip ==
    [][/\ (last'.op = "refresh" /\ Has(last'.req, "refresh") /\ Usable(last'.req.refresh))
          => /\ last'.code = 200
             /\ last'.data.access \in issued'
             /\ last'.data.access.type = "access"
             /\ last'.data.access \notin expired'
             /\ last'.data.access.uid = last'.req.refresh.uid
             /\ users'[last'.data.access.uid].is_active
       /\ (last'.op = "logout" /\ last'.code = 200) => last'.req.refresh.jti \in blacklist'
       /\ blacklist \subseteq blacklist'
       /\ (last'.op = "refresh" /\ Has(last'.req, "refresh") /\ last'.req.refresh.jti \in blacklist)
          => last'.code = 401 /\ issued' = issued
      ]_vars

\* A refresh token that only a logout can have blacklisted, and whose lifetime
\* has not passed, was presented for a refresh and refused.
C7_Witness ==
    /\ last.op = "refresh"
    /\ last.code = 401
    /\ Has(last.req, "refresh")
    /\ last.req.refresh.type = "refresh"
    /\ last.req.refresh.jti \in blacklist
    /\ last.req.refresh \notin expired
    /\ ~ settings.blacklist_after_rotation

\* The last request was a logout by an authenticated caller with a token that
\* was on the blacklist already.
LogoutOfBlacklisted(l, bl) ==
    /\ l.op = "logout"
    /\ l.caller # 0
    /\ Has(l.req, "refresh")
    /\ l.req.refresh.jti \in bl

(* C8 as stated: a logout with a refresh token that is already blacklisted   *)
(* is answered with success and leaves the blacklist unchanged.              *)
C8_LogoutIdempotentSuccess ==
    [][LogoutOfBlacklisted(last', blacklist) => last'.code = 200 /\ blacklist' = blacklist]_vars

(* C8 as amended: a logout with a refresh token that is already blacklisted  *)
(* is answered 400 'Invalid token' and leaves the blacklist unchanged.       *)
C8_LogoutOfBlacklistedRefused ==
    [][LogoutOfBlacklisted(last', blacklist)
       => last'.code = 400 /\ last'.data = "Invalid token" /\ blacklist' = blacklist]_vars

\* A second logout with the token of a first one.
C8_Witness ==
    /\ LogoutOfBlacklisted(last, blacklist)
    /\ last.code = 400
    /\ last.req.refresh.type = "refresh"
    /\ last.req.refresh \notin expired
    /\ ~ settings.blacklist_after_rotation

----------------------------------------------------------------------------
(* SpecAccount: registration, profile update and admin update of users.      *)

InitAccount ==
    /\ users = (1 :> UserRow(Email1, Name1, "admin"))
    /\ nextUserId = 2
    /\ tasks = NoTasks
    /\ nextTaskId = 1
    /\ issued = {LoginAccess(ThreeUsers, 1)}
    /\ nextJti = 1
    /\ blacklist = {}
    /\ expired = {}
    /\ settings = [rotate |-> FALSE, blacklist_after_rotation |-> FALSE]
    /\ last = NoRequest
    /\ inflight = {}

EmailUpper1 == <<"A", "@", "c">>
EmailBad == <<"b", "c">>
NameUpper2 == <<"B", "B", "1">>
NameMixed2 == <<"B", "b", "1">>
NameUnderscore == <<"b", "_", "1">>
NameShort == <<"b", "b">>
NameSpace == <<"b", " ", "1">>

Registration(email, username, password, confirm) ==
    [email |-> email, username |-> username, password |-> password, password_confirm |-> confirm]

RegistrationPayloads ==
    {Registration(Email2, Name2, Pass1, Pass1),
     Registration(Email3, Name3, Pass1, Pass1),
     Registration(Email3, Name2, Pass1, Pass1),
     Registration(Email3, NameMixed2, Pass1, Pass1),
     Registration(EmailUpper1, Name3, Pass1, Pass1),
     Registration(Email3, NameUnderscore, Pass1, Pass1),
     Registration(Email3, NameShort, Pass1, Pass1),
     Registration(Email3, Name3, Pass1, Pass2),
     Registration(Email3, Name3, "12345678", "12345678"),
     Registration(EmailBad, Name3, Pass1, Pass1),
     [email |-> EmailUpper2, username |-> NameUpper2, password |-> Pass1, password_confirm |-> Pass1, role |-> "admin"],
     [email |-> Email3]}

ProfilePayloads ==
    {[username |-> NameMixed2], [username |-> Name3], [username |-> NameSpace],
     [username |-> Name2, role |-> "admin", email |-> Email3], NoPayload}

UserIds == 1..MaxUsers

NextAccount ==
    \/ Idle /\ \E p \in RegistrationPayloads : UserRegistrationView_post(p)
    \/ Idle /\ \E tok \in Credentials, partial \in BOOLEAN, p \in ProfilePayloads :
                  UserProfileView_update(tok, partial, p)
    \/ Idle /\ \E tok \in Credentials, pk \in UserIds, p \in {[role |-> "admin"], [role |-> "user"]} :
                  AdminUserDetailView_put(tok, pk, p)
    \/ Deliver

SpecAccount == InitAccount /\ [][NextAccount]_vars

\* Two strings are equal, ignoring letter case.
SameIgnoringCase(a, b) ==
    Len(a) = Len(b) /\ \A i \in 1..Len(a) : SameLetter(a[i], b[i])

\* A stored user has the value v in field f, ignoring letter case.
Taken(f, v) == \E u \in DOMAIN users : SameIgnoringCase(users[u][f], v)

(* C5 as stated: a registration whose email or username equals, ignoring     *)
(* letter case, that of a stored user is answered 400 with an error on that  *)
(* field and creates no user.                                                *)
C5_DuplicateRejected ==
    [][(last'.op = "register" /\ Has(last'.req, "email") /\ Has(last'.req, "username"))
       => /\ Taken("email", last'.req.email)
             => last'.code = 400 /\ "email" \in last'.data /\ users' = users
          /\ Taken("username", last'.req.username)
             => last'.code = 400 /\ "username" \in last'.data /\ users' = users
      ]_vars

(* C6: the user a registration answered 201 creates is a new row of role     *)
(* user, whatever role the request supplies.                                 *)
C6_RegisteredRoleIsUser ==
    [][(last'.op = "register" /\ last'.code = 201)
       => /\ last'.target \notin DOMAIN users
          /\ last'.target \in DOMAIN users'
          /\ users'[last'.target].role = "user"
      ]_vars

\* A registration that asked for role admin was answered 201.
C6_Witness ==
    /\ last.op = "register"
    /\ last.code = 201
    /\ Has(last.req, "role")
    /\ last.req.role = "admin"
    /\ last.target \in DOMAIN users

----------------------------------------------------------------------------
(* SpecRole: the endpoints that update a user, called by every user.         *)

\* Two admins and a user, all three logged in.
TwoAdmins == [ThreeUsers EXCEPT ![2].role = "admin"]

InitRole ==
    /\ users = TwoAdmins
    /\ nextUserId = 4
    /\ tasks = NoTasks
    /\ nextTaskId = 1
    /\ issued = {LoginAccess(TwoAdmins, u) : u \in DOMAIN TwoAdmins}
    /\ nextJti = 1
    /\ blacklist = {}
    /\ expired = {}
    /\ settings = [rotate |-> FALSE, blacklist_after_rotation |-> FALSE]
    /\ last = NoRequest
    /\ inflight = {}

Name4 == <<"a", "b", "c">>

PasswordChange(old, new, confirm) ==
    [old_password |-> old, new_password |-> new, new_password_confirm |-> confirm]

PasswordPayloads ==
    {PasswordChange(Pass1, Pass2, Pass2), PasswordChange(Pass2, Pass2, Pass2),
     PasswordChange(Pass1, Pass2, Pass1), PasswordChange(Pass1, "12345678", "12345678")}

NextRole ==
    \/ Idle /\ \E tok \in Credentials, p \in {[username |-> Name4, role |-> "admin"], [role |-> "user"]} :
                  UserProfileView_update(tok, TRUE, p)
    \/ Idle /\ \E tok \in Credentials, p \in PasswordPayloads : ChangePasswordView_put(tok, p)
    \/ Idle /\ \E tok \in Credentials, pk \in UserIds, p \in {[role |-> "admin"], [role |-> "user"], [role |-> "root"]} :
                  AdminUserDetailView_put(tok, pk, p)
    \/ Deliver

SpecRole == InitRole /\ [][NextRole]_vars

(* C9 as stated: the stored role of a user U changes only in an admin update *)
(* called by an admin other than U; no request U sends changes U's role.     *)
C9_RoleChangedByAnotherAdmin ==
    [][\A u \in DOMAIN users \cap DOMAIN users' :
          users'[u].role # users[u].role
          => /\ last'.op = "admin_user_update"
             /\ last'.caller # 0
             /\ last'.caller # u
             /\ users[last'.caller].role = "admin"
      ]_vars

----------------------------------------------------------------------------
(* SpecAdmin: the admin-only endpoints, called with tokens issued before a   *)
(* change of role.                                                           *)

AdminOps ==
    {"admin_user_list", "admin_user_retrieve", "admin_user_update", "admin_user_delete",
     "admin_task_list", "admin_task_delete"}

NextAdmin ==
    \/ Idle /\ \E tok \in Credentials : TaskCreate(tok, [title |-> Title1])
    \/ Idle /\ \E tok \in Credentials : AdminUserListView_get(tok)
    \/ Idle /\ \E tok \in Credentials, pk \in UserIds : AdminUserDetailView_get(tok, pk)
    \/ Idle /\ \E tok \in Credentials, pk \in UserIds, p \in {[role |-> "admin"], [role |-> "user"], [is_active |-> FALSE]} :
                  AdminUserDetailView_put(tok, pk, p)
    \/ Idle /\ \E tok \in Credentials, pk \in UserIds : AdminUserDetailView_delete(tok, pk)
    \/ Idle /\ \E tok \in Credentials : AdminTaskListView_get(tok)
    \/ Idle /\ \E tok \in Credentials, pk \in TaskIds : AdminTaskDeleteView_delete(tok, pk)
    \/ Deliver

SpecAdmin == InitRole /\ [][NextAdmin]_vars

(* C10: an admin-only request is answered with success only when the role    *)
(* stored for the caller as the request arrives is admin, whatever role the  *)
(* caller's token was issued with; a request answered otherwise leaves the   *)
(* users and the tasks as they were.                                         *)
C10_AdminOnly ==
    [][last'.op \in AdminOps
       => IF last'.code \in {200, 204}
          THEN /\ last'.tok \in issued
               /\ last'.tok.uid \in DOMAIN users
               /\ users[last'.tok.uid].role = "admin"
          ELSE users' = users /\ tasks' = tasks
      ]_vars

\* A token issued to an admin was refused after its user was made a user.
C10_Witness ==
    /\ last.op \in AdminOps
    /\ last.code = 403
    /\ last.tok.claims.role = "admin"
    /\ last.caller \in DOMAIN users
    /\ users[last.caller].role = "user"

\* The request answered last was an admin's deletion of their own account.
SelfDelete(l, us) ==
    /\ l.op = "admin_user_delete"
    /\ l.caller \in DOMAIN us
    /\ us[l.caller].role = "admin"
    /\ l.target = l.caller

(* C11: an admin's request to delete their own account is answered 400 with   *)
(* 'You cannot delete your own account', and the users and the tasks stay as  *)
(* they were.                                                                *)
C11_SelfDeleteRejected ==
    [][SelfDelete(last', users)
       => /\ last'.code = 400
          /\ last'.data = "You cannot delete your own account"
          /\ users' = users
          /\ tasks' = tasks
      ]_vars

\* An admin who owns a task asked for the deletion of their own account.
C11_Witness ==
    /\ SelfDelete(last, users)
    /\ last.code = 400
    /\ \E t \in DOMAIN tasks : tasks[t].owner = last.caller

(* C12: in every state every stored username is lowercase, alphanumeric and  *)
(* at least 3 characters long, and no two users have usernames that are      *)
(* equal ignoring letter case.                                               *)
C12_UsernamesNormalized ==
    /\ \A u \in DOMAIN users :
          /\ users[u].username = Lower(users[u].username)
          /\ isalnum(users[u].username)
          /\ Len(users[u].username) >= 3
    /\ \A u, v \in DOMAIN users :
          u # v => ~ SameIgnoringCase(users[u].username, users[v].username)

\* The request answered last was an update, by the owner or an admin, of a task
\* with a payload that carries an owner.
UpdateWithOwner(l) ==
    /\ l.op = "task_update"
    /\ MayWrite(l.caller, l.target)
    /\ Has(l.req.data, "owner")

(* C13: a task update whose payload carries an owner is answered with a     *)
(* validation error and leaves the task unchanged.                          *)
C13_OwnerRejected ==
    [][UpdateWithOwner(last') => last'.code = 400 /\ tasks' = tasks]_vars

(* C14: a task create by an authenticated caller is answered 201 exactly     *)
(* when title and priority are valid, whatever owner or status the payload   *)
(* carries (no transition check), and the task stored by it is a new one     *)
(* with owner = the caller and status = pending.                             *)
C14_CreateOwnerAndStatus ==
    [][(last'.op = "task_create" /\ last'.caller # 0)
       => LET d == last'.req
              ok == /\ Has(d, "title") /\ Len(strip(d.title)) >= 3
                    /\ Has(d, "priority") => d.priority \in PRIORITY_CHOICES
          IN  IF ok
              THEN /\ last'.code = 201
                   /\ last'.target \notin DOMAIN tasks
                   /\ DOMAIN tasks' = DOMAIN tasks \cup {last'.target}
                   /\ tasks'[last'.target].owner = last'.caller
                   /\ tasks'[last'.target].status = "pending"
              ELSE last'.code = 400 /\ tasks' = tasks
      ]_vars

\* A create whose payload named another owner and the status completed was answered 201.
C14_Witness ==
    /\ last.op = "task_create"
    /\ last.code = 201
    /\ Has(last.req, "owner") /\ last.req.owner # last.caller
    /\ Has(last.req, "status") /\ last.req.status = "completed"
    /\ last.target \in DOMAIN tasks
    /\ tasks[last.target].owner = last.caller

----------------------------------------------------------------------------
(* SpecStats: one task stats request at a time, while tasks are created,     *)
(* updated and deleted by other requests.                                    *)

NextStats ==
    \/ Idle /\ \E tok \in Credentials : TaskCreate(tok, [title |-> Title1])
    \/ Idle /\ \E tok \in Credentials, pk \in TaskIds, s \in {"in_progress", "completed"} :
                  TaskUpdate(tok, pk, TRUE, [status |-> s])
    \/ Idle /\ \E tok \in Credentials, pk \in TaskIds : TaskDelete(tok, pk)
    \/ Idle /\ inflight = {} /\ \E tok \in Credentials : TaskStatsView_get_begin(tok)
    \/ Idle /\ \E r \in inflight : TaskStatsView_get_count(r)
    \/ Deliver

SpecStats == InitTask /\ [][NextStats]_vars

(* C15: every task stats response reports a total that equals the sum of    *)
(* its four per-status counts, also when other requests create, update or   *)
(* delete tasks while the counts are computed.                               *)
C15_StatsTotal ==
    (last.op = "task_stats" /\ last.code = 200)
    => last.data.total = last.data.pending + last.data.in_progress
                         + last.data.completed + last.data.cancelled

----------------------------------------------------------------------------
(* C16: every failing outcome of registration, login, refresh, logout,       *)
(* password change, task create, update, delete and admin user delete has    *)
(* the body {success, error: {code, message, details}}.                      *)
C16_ErrorEnvelope ==
    (/\ last.op \in {"register", "login", "refresh", "logout", "change_password",
                     "task_create", "task_update", "task_delete", "admin_user_delete"}
     /\ last.code >= 400)
    => ErrorBody(last) = {"success", "error"}

(* C17: every access token issued by registration, login or refresh carries  *)
(* the user id, email, username and role of the user it is issued for.       *)
C17_AccessTokenClaims ==
    [][\A t \in issued' \ issued :
          t.type = "access"
          => /\ t.uid \in DOMAIN users'
             /\ t.claims = [custom |-> TRUE, email |-> users'[t.uid].email,
                            username |-> users'[t.uid].username, role |-> users'[t.uid].role]
      ]_vars

----------------------------------------------------------------------------
(* SpecPassword: password changes and logins.                                *)

Passwords == {Pass1, Pass2, "12345678"}

PasswordChanges ==
    [old_password : Passwords, new_password : Passwords, new_password_confirm : Passwords]
      \cup {[old_password |-> Pass1, new_password |-> Pass2]}

PasswordLogins == [email : {Email2, Email3}, password : Passwords]

NextPassword ==
    \/ Idle /\ \E tok \in Credentials, p \in PasswordChanges : ChangePasswordView_put(tok, p)
    \/ Idle /\ \E p \in PasswordLogins : UserLoginView_post(p)
    \/ Deliver

SpecPassword == InitTask /\ [][NextPassword]_vars

\* The payload of a password change that must succeed for user u.
PasswordChangeAcceptable(u, d) ==
    /\ Has(d, "old_password") /\ Has(d, "new_password") /\ Has(d, "new_password_confirm")
    /\ d.old_password = users[u].password
    /\ d.new_password = d.new_password_confirm
    /\ d.new_password # d.old_password
    /\ validate_password(d.new_password)

(* C18: a password change by an authenticated caller is answered 200 exactly *)
(* when old_password is the stored password, new_password equals its         *)
(* confirmation, differs from old_password and passes the strength policy;   *)
(* then the stored password becomes new_password, and otherwise it is        *)
(* unchanged.  A login succeeds exactly with the password stored for the     *)
(* email, so after a change it succeeds with the new and fails with the old. *)
C18_ChangePassword ==
    [][/\ (last'.op = "change_password" /\ last'.caller # 0)
          => IF PasswordChangeAcceptable(last'.caller, last'.req)
             THEN /\ last'.code = 200
                  /\ users' = [users EXCEPT ![last'.caller].password = last'.req.new_password]
             ELSE last'.code = 400 /\ users' = users
       /\ (last'.op = "login" /\ Has(last'.req, "password"))
          => (last'.code = 200
              <=> \E u \in DOMAIN users :
                     /\ users[u].email = last'.req.email
                     /\ users[u].password = last'.req.password
                     /\ users[u].is_active)
      ]_vars

\* A login with the old password was refused after the password was changed.
C18_Witness ==
    /\ last.op = "login"
    /\ last.code = 401
    /\ last.req.password = Pass1
    /\ \E u \in DOMAIN users : users[u].email = last.req.email /\ users[u].password = Pass2

----------------------------------------------------------------------------
(* SpecUpdateRace: update requests on tasks served concurrently.             *)

NextUpdateRace ==
    \/ Idle /\ \E tok \in Credentials : TaskCreate(tok, [title |-> Title1])
    \/ Idle /\ \E tok \in Credentials, pk \in TaskIds, s \in STATUS_CHOICES :
                  TaskUpdate_get_object(tok, pk, TRUE, [status |-> s])
    \/ \E r \in inflight : TaskUpdate_save(r)
    \/ Deliver

SpecUpdateRace == InitTask /\ [][NextUpdateRace]_vars

(* C19: under every interleaving of concurrent updates of a task, each       *)
(* change of its stored status from s to another s' is a transition of the   *)
(* table.                                                                    *)
C19_ConcurrentTransitions ==
    [][\A t \in DOMAIN tasks \cap DOMAIN tasks' :
          tasks'[t].status # tasks[t].status
          => <<tasks[t].status, tasks'[t].status>> \in TransitionTable
      ]_vars

----------------------------------------------------------------------------
(* SpecRegisterRace: registration requests served concurrently.              *)

RacePayloads ==
    {Registration(Email2, Name2, Pass1, Pass1),
     Registration(Email2, Name3, Pass1, Pass1),
     Registration(Email3, NameUpper2, Pass1, Pass1),
     Registration(EmailUpper2, Name3, Pass1, Pass1),
     Registration(Email3, Name3, Pass1, Pass1),
     Registration(Email3, Name3, Pass1, Pass2)}

NextRegisterRace ==
    \/ Idle /\ \E p \in RacePayloads : UserRegistrationView_post_is_valid(p)
    \/ \E r \in inflight : UserRegistrationView_post_save(r)
    \/ Deliver

SpecRegisterRace == InitAccount /\ [][NextRegisterRace]_vars

(* C20: when registrations with the same email or the same username run      *)
(* concurrently, each is answered 201 or with a validation error (400),      *)
(* never with an internal error, and no two stored users share an email or   *)
(* a username.                                                               *)
C20_ConcurrentRegistration ==
    /\ last.op = "register" => last.code \in {201, 400}
    /\ \A u, v \in DOMAIN users :
          u # v => users[u].email # users[v].email /\ users[u].username # users[v].username

----------------------------------------------------------------------------
(* SpecCascade: tasks are created and updated, users are deleted by admins.  *)

NextCascade ==
    \/ Idle /\ \E tok \in Credentials : TaskCreate(tok, [title |-> Title1])
    \/ Idle /\ \E tok \in Credentials, pk \in TaskIds :
                  TaskUpdate(tok, pk, TRUE, [status |-> "in_progress"])
    \/ Idle /\ \E tok \in Credentials, pk \in UserIds : AdminUserDetailView_delete(tok, pk)
    \/ Deliver

SpecCascade == InitRole /\ [][NextCascade]_vars

(* C21: after every step the owner of every stored task is a stored user,    *)
(* and an admin delete answered 204 removes the user and exactly the tasks   *)
(* the user owns, leaving every other user and every other task as it was.   *)
C21_OwnerExists ==
    [][/\ \A t \in DOMAIN tasks' : tasks'[t].owner \in DOMAIN users'
       /\ (last'.op = "admin_user_delete" /\ last'.code = 204)
          => /\ last'.target \in DOMAIN users
             /\ DOMAIN users' = DOMAIN users \ {last'.target}
             /\ \A u \in DOMAIN users' : users'[u] = users[u]
             /\ DOMAIN tasks' = {t \in DOMAIN tasks : tasks[t].owner # last'.target}
             /\ \A t \in DOMAIN tasks' : tasks'[t] = tasks[t]
      ]_vars

\* A user who owned a task was deleted, and a task of another owner is still stored.
C21_Witness ==
    /\ last.op = "admin_user_delete"
    /\ last.code = 204
    /\ last.target \notin DOMAIN users
    /\ nextTaskId = 3
    /\ Cardinality(DOMAIN tasks) = 1

----------------------------------------------------------------------------
(* SpecFrame: tasks are created, updated and deleted through every endpoint  *)
(* that writes tasks, while admins change roles and delete users.            *)

NextFrame ==
    \/ Idle /\ \E tok \in Credentials : TaskCreate(tok, [title |-> Title1])
    \/ Idle /\ \E tok \in Credentials, pk \in TaskIds, partial \in BOOLEAN,
                  p \in {[status |-> "in_progress"], [title |-> Title2, owner |-> 2]} :
                  TaskUpdate(tok, pk, partial, p)
    \/ Idle /\ \E tok \in Credentials, pk \in TaskIds : TaskDelete(tok, pk)
    \/ Idle /\ \E tok \in Credentials, pk \in TaskIds : AdminTaskDeleteView_delete(tok, pk)
    \/ Idle /\ \E tok \in Credentials, pk \in UserIds, p \in {[role |-> "admin"], [role |-> "user"]} :
                  AdminUserDetailView_put(tok, pk, p)
    \/ Idle /\ \E tok \in Credentials, pk \in UserIds : AdminUserDetailView_delete(tok, pk)
    \/ Deliver

SpecFrame == InitTask /\ [][NextFrame]_vars

(* C22: a step that changes a field of a stored task, or removes the task,   *)
(* is the request of the task's owner or of a caller whose stored role is    *)
(* admin; no request of a caller whose role is user changes or deletes a     *)
(* task of another user.                                                     *)
C22_OwnershipFrame ==
    [][\A t \in DOMAIN tasks :
          (t \notin DOMAIN tasks' \/ tasks'[t] # tasks[t])
          => /\ last'.caller \in DOMAIN users
             /\ tasks[t].owner = last'.caller \/ users[last'.caller].role = "admin"
      ]_vars

\* A caller whose token was issued to an admin, and whose stored role is user
\* by now, asked the admin endpoint to delete a task of another user and was refused.
C22_Witness ==
    /\ last.op = "admin_task_delete"
    /\ last.code = 403
    /\ last.tok.claims.role = "admin"
    /\ last.target \in DOMAIN tasks
    /\ tasks[last.target].owner # last.caller

====
